---- MODULE Spec2Model ----
(***************************************************************************)
(* Model of src/shared/ui/pickerPrompter.ts: the QuickPickPrompter item    *)
(* loading / placeholder / error protocol, the filter-box ("free text")    *)
(* controller, recency matching and the promptUser lifecycle.              *)
(*                                                                         *)
(* JavaScript runs handlers to completion on one event loop, so every      *)
(* action below is one macrotask (a widget event, a timer, the settling of *)
(* an external promise, or a public method call) together with all the     *)
(* microtasks it triggers.                                                 *)
(***************************************************************************)
EXTENDS Integers, Sequences, FiniteSets, TLC

VARIABLES
    options,               \* ExtendedQuickPickOptions of the prompter (fixed)
    items,                 \* quickPick.items
    activeItems,           \* quickPick.activeItems
    value,                 \* quickPick.value (the filter text)
    isShowingPlaceholder,  \* QuickPickPrompter.isShowingPlaceholder
    errDetail,             \* DEFAULT_ERROR_ITEM.detail (module-level object)
    pendingUpdates,        \* QuickInputPrompter.pendingUpdates
    recentItem,            \* QuickPickPrompter._recentItem
    load,                  \* the loadItems call in flight, if any
    fb,                    \* the closure state of addFilterBoxInput
    prompt,                \* promptUser: its promise, subscriptions and widget
    ev                     \* the operation that produced the current state

vars == << options, items, activeItems, value, isShowingPlaceholder, errDetail,
           pendingUpdates, recentItem, load, fb, prompt, ev >>

-----------------------------------------------------------------------------
(* Values *)

\* JavaScript's undefined, for the optional string fields
Undef == "<undefined>"

WIZARD_BACK == "WIZARD_BACK"
WIZARD_EXIT == "WIZARD_EXIT"
CUSTOM_USER_INPUT == "CUSTOM_USER_INPUT"

\* the localized suffix of ../localizedText
recentlyUsed == "recently used"

\* QuickPickData: an immediate primitive, an immediate object (v is its JSON
\* serialization) or a thunk whose promise resolves to v
Prim(v) == [kind |-> "prim", v |-> v]
Obj(v) == [kind |-> "obj", v |-> v]
Thunk(v) == [kind |-> "thunk", v |-> v]

\* _recentItem === undefined
NoRecent == [kind |-> "undefined", v |-> Undef]

\* DataQuickPickItem
Item(label, description, detail, data, invalid, recent, click) ==
    [label |-> label, description |-> description, detail |-> detail,
     data |-> data, invalidSelection |-> invalid, recentlyUsed |-> recent,
     onClick |-> click, skipEstimate |-> Undef]

DEFAULT_NO_ITEMS_ITEM ==
    Item("[No items found]", "", "Click here to go back", Prim(WIZARD_BACK),
         FALSE, FALSE, FALSE)

\* DEFAULT_ERROR_ITEM is one shared object: its detail is the variable errDetail
DEFAULT_ERROR_ITEM(detail) ==
    Item("[Error loading items]", "", detail, Prim(WIZARD_BACK),
         FALSE, FALSE, FALSE)

-----------------------------------------------------------------------------
(* Sequence helpers *)

RECURSIVE SelectSeq2(_, _)
\* Array.prototype.filter with a predicate given as a set of accepted labels
SelectSeq2(s, labels) ==
    IF s = << >> THEN << >>
    ELSE IF Head(s).label \in labels
         THEN << Head(s) >> \o SelectSeq2(Tail(s), labels)
         ELSE SelectSeq2(Tail(s), labels)

Range(s) == { s[i] : i \in 1..Len(s) }

Reverse(s) == [ i \in 1..Len(s) |-> s[Len(s) + 1 - i] ]

\* number of positions of s holding x
Count(s, x) == Cardinality({ i \in 1..Len(s) : s[i] = x })

\* s and t hold the same records the same number of times
SameBag(s, t) ==
    /\ Len(s) = Len(t)
    /\ \A x \in Range(s) \cup Range(t) : Count(s, x) = Count(t, x)

-----------------------------------------------------------------------------
(* Pure helpers of pickerPrompter.ts *)

\* applyDescriptionSuffix(recentlyUsed)
applyDescriptionSuffix(item) ==
    IF ~item.recentlyUsed THEN item
    ELSE [item EXCEPT !.description =
            IF item.description = "" THEN recentlyUsed
            ELSE IF item.description = "d1" THEN "d1 (recently used)"
            ELSE "d1 (recently used) (recently used)"]

\* options.compare: a caller's comparator on labels, when configured
LabelRank(l) ==
    CASE l = "a" -> 1 [] l = "b" -> 2 [] l = "c" -> 3 [] OTHER -> 4

compare(a, b) == LabelRank(a.label) - LabelRank(b.label)

\* the comparator without its recentlyUsed tests (a faulty variant)
sort_noRecent(opts, a, b) ==
    IF opts.compare THEN compare(a, b) ELSE 0

\* const sort = (a, b) => a.recentlyUsed ? -1 : b.recentlyUsed ? 1 : compare?.(a, b) ?? 0
sort(opts, a, b) ==
    IF a.recentlyUsed THEN -1
    ELSE IF b.recentlyUsed THEN 1
    ELSE IF opts.compare THEN compare(a, b) ELSE 0

(* Array.prototype.sort as the runtime (V8, arrays shorter than 64) computes *)
(* it: one run is counted (and reversed when strictly descending), the rest  *)
(* is inserted by binary insertion.  The comparator above is not a           *)
(* consistent order (two recentlyUsed records each compare below the other), *)
(* so the algorithm and not an abstract order decides the result.            *)

RECURSIVE RunLength(_, _, _, _)
\* CountAndMakeRun: length of the run a[1..n], n >= 2 scanned so far
RunLength(opts, a, n, descending) ==
    IF n = Len(a) THEN n
    ELSE LET order == sort(opts, a[n + 1], a[n])
         IN IF descending
            THEN IF order >= 0 THEN n ELSE RunLength(opts, a, n + 1, descending)
            ELSE IF order < 0 THEN n ELSE RunLength(opts, a, n + 1, descending)

RECURSIVE BinarySearch(_, _, _, _, _)
\* the insertion point of pivot in the sorted prefix a[left+1 .. right] (0-based bounds)
BinarySearch(opts, a, pivot, left, right) ==
    IF left >= right THEN left
    ELSE LET mid == left + ((right - left) \div 2)
         IN IF sort(opts, pivot, a[mid + 1]) < 0
            THEN BinarySearch(opts, a, pivot, left, mid)
            ELSE BinarySearch(opts, a, pivot, mid + 1, right)

RECURSIVE BinaryInsertionSort(_, _, _)
\* a[1..start] is sorted; insert a[start+1], a[start+2], ...
BinaryInsertionSort(opts, a, start) ==
    IF start >= Len(a) THEN a
    ELSE LET pivot == a[start + 1]
             left == BinarySearch(opts, a, pivot, 0, start)
             moved == SubSeq(a, 1, left) \o << pivot >>
                      \o SubSeq(a, left + 1, start)
                      \o SubSeq(a, start + 2, Len(a))
         IN BinaryInsertionSort(opts, moved, start + 1)

ArraySort(opts, a) ==
    IF Len(a) < 2 THEN a
    ELSE LET descending == sort(opts, a[2], a[1]) < 0
             run == RunLength(opts, a, 2, descending)
             made == IF descending
                     THEN Reverse(SubSeq(a, 1, run)) \o SubSeq(a, run + 1, Len(a))
                     ELSE a
         IN BinaryInsertionSort(opts, made, run)

-----------------------------------------------------------------------------
(* The prompter's mutable state as one record, so that a handler is the      *)
(* composition of the methods it calls.                                      *)

Cur ==
    [items |-> items, activeItems |-> activeItems, value |-> value,
     isShowingPlaceholder |-> isShowingPlaceholder, errDetail |-> errDetail,
     pendingUpdates |-> pendingUpdates, recentItem |-> recentItem,
     load |-> load, fb |-> fb, prompt |-> prompt]

Commit(s) ==
    /\ items' = s.items
    /\ activeItems' = s.activeItems
    /\ value' = s.value
    /\ isShowingPlaceholder' = s.isShowingPlaceholder
    /\ errDetail' = s.errDetail
    /\ pendingUpdates' = s.pendingUpdates
    /\ recentItem' = s.recentItem
    /\ load' = s.load
    /\ fb' = s.fb
    /\ prompt' = s.prompt
    /\ UNCHANGED options

\* no loadItems call in flight.  Of a call in flight: its kind of supply,
\* hidden (the flag of loadFromAsyncIterable), whether the stream has yielded,
\* whether the chain is rejected, how the list was at the call, asked
\* (iterator.next() was called after the hide event), cleared (clearItems
\* was called since) and, when clearAndLoadItems made the call, its
\* previousSelected (sel) beside the highlight as it was at the call (was)
NoLoad == [kind |-> "none", hidden |-> FALSE, yielded |-> FALSE, failed |-> FALSE,
           preEmpty |-> FALSE, prePlaceholder |-> FALSE,
           asked |-> FALSE, cleared |-> FALSE,
           reselect |-> [on |-> FALSE, sel |-> << >>, was |-> << >>]]

\* a loadItems call of the given kind, made in state s
LoadCall(kind, s) ==
    [NoLoad EXCEPT !.kind = kind, !.preEmpty = (s.items = << >>),
                   !.prePlaceholder = s.isShowingPlaceholder]

\* what the last step did: op names the operation, batch and err its inputs,
\* pre the loadItems call it belongs to (how the list was when loadItems was
\* called, whether the stream has yielded before), rejected whether the
\* promise returned by loadItems rejected
Event(op, batch, err, pre, rejected) ==
    [op |-> op, batch |-> batch, err |-> err, preEmpty |-> pre.preEmpty,
     prePlaceholder |-> pre.prePlaceholder, yielded |-> pre.yielded,
     hidden |-> pre.hidden, cleared |-> pre.cleared,
     rejected |-> rejected, arg |-> NoRecent, sel |-> << >>]

-----------------------------------------------------------------------------
(* QuickPickPrompter methods *)

\* clearItems removing the first entry only (a faulty variant)
clearItems_shift(s) ==
    [s EXCEPT !.items = IF @ = << >> THEN @ ELSE Tail(@),
              !.isShowingPlaceholder = FALSE]

\* clearItems giving up the supply being loaded as well (a faulty variant)
clearItems_cancel(s) ==
    [s EXCEPT !.items = << >>, !.isShowingPlaceholder = FALSE,
              !.load = [kind |-> "none", hidden |-> FALSE, yielded |-> FALSE,
                        failed |-> FALSE, preEmpty |-> FALSE, prePlaceholder |-> FALSE,
                        asked |-> FALSE, cleared |-> FALSE,
                        reselect |-> [on |-> FALSE, sel |-> << >>, was |-> << >>]]]

\* clearItems()
clearItems(s) ==
    [s EXCEPT !.items = << >>, !.isShowingPlaceholder = FALSE]

\* selectItems without its last statement: with no matching record nothing
\* is highlighted (a faulty variant)
selectItems_noFallback(s, sel) ==
    LET selected == { sel[i].label : i \in 1..Len(sel) }
    IN [s EXCEPT !.activeItems = SelectSeq2(s.items, selected)]

\* selectItems(...sel).  The widget keeps, of the records assigned to
\* activeItems, those that are in its list: [items[0]] of an empty list is
\* [undefined] and is stored as no active item.
selectItems(s, sel) ==
    LET selected == { sel[i].label : i \in 1..Len(sel) }
        matching == SelectSeq2(s.items, selected)
    IN [s EXCEPT !.activeItems =
            IF Len(matching) # 0 THEN matching
            ELSE IF s.items = << >> THEN << >> ELSE << s.items[1] >>]

\* appendItems(batch)
appendItems(s, batch) ==
    LET recent == s.activeItems
        suffixed == [ i \in 1..Len(batch) |-> applyDescriptionSuffix(batch[i]) ]
        sorted == ArraySort(options, s.items \o suffixed)
    IN selectItems([s EXCEPT !.items = sorted], recent)

\* resolveItemOption(base, item) for the two shapes of option modelled: the
\* option left at its default (the base object itself) or a string (a copy of
\* the base with the label replaced)
resolveItemOption(base, option) ==
    IF option = "default" THEN base ELSE [base EXCEPT !.label = option]

\* checkEmpty(pendingUpdate)
checkEmpty(s, pendingUpdate) ==
    IF s.items = << >> /\ ~pendingUpdate
    THEN selectItems(
            [s EXCEPT !.isShowingPlaceholder = TRUE,
                      !.items = << resolveItemOption(DEFAULT_NO_ITEMS_ITEM,
                                                      options.noItemsFoundItem) >>],
            << >>)
    ELSE s

\* resolvedItem.detail ??= error.message
errorDetail(current, message) ==
    IF current = Undef THEN message ELSE current

\* addErrorItem(error).  With the option at its default resolvedItem IS the
\* module-level DEFAULT_ERROR_ITEM, so the ??= assignment writes its detail
\* for good; with a string option resolvedItem is a fresh copy of it.
addErrorItem(s, message) ==
    LET detail == errorDetail(s.errDetail, message)
        resolvedItem == resolveItemOption(DEFAULT_ERROR_ITEM(detail), options.errorItem)
        s1 == [s EXCEPT !.isShowingPlaceholder = TRUE,
                        !.errDetail = IF options.errorItem = "default"
                                      THEN detail ELSE @]
    IN appendItems(s1, << resolvedItem >>)

\* QuickInputPrompter.addBusyUpdate(promise): one more pending update until
\* the promise settles
addBusyUpdate(s) == [s EXCEPT !.pendingUpdates = @ + 1]

busyUpdateSettled(s) == [s EXCEPT !.pendingUpdates = @ - 1]

\* loadItems without its first statements: a showing placeholder or error
\* record is left in the list (a faulty variant)
loadItemsBegin_keep(s) == s

\* loadItems, first statements: a showing placeholder is cleared
loadItemsBegin(s) ==
    IF s.isShowingPlaceholder THEN clearItems(s) ELSE s

\* loader.catch(handleError) left out: the failure is not handled and the
\* chain stays rejected (a faulty variant)
handleError_uncaught(s, message) == s

\* loader.catch(handleError): handleError logs and calls addErrorItem, and the
\* chain is fulfilled again
handleError(s, message) ==
    addErrorItem([s EXCEPT !.load.failed = FALSE], message)

\* loader.catch(handleError).finally(() => this.checkEmpty(this.pendingUpdates > 1))
\* and then the settling of the busy update: the end of an asynchronous load
withHandlers(s, failed, message) ==
    LET thrown == [s EXCEPT !.load.failed = failed]
        caught == IF failed THEN handleError(thrown, message) ELSE thrown
        checked == checkEmpty(caught, caught.pendingUpdates > 1)
    IN busyUpdateSettled(checked)

\* acceptItems with the validity check moved before the onClick calls: no
\* onClick runs for a selection holding an invalid record (a faulty variant)
acceptItems_checkFirst(selected) ==
    IF Len(selected) = 0 \/ (\E i \in 1..Len(selected) : selected[i].invalidSelection)
    THEN [clicked |-> << >>, resolved |-> FALSE]
    ELSE [clicked |-> SelectSeq(selected, LAMBDA item : item.onClick),
          resolved |-> TRUE]

\* acceptItems(picker, resolve) on picker.selectedItems = selected: the
\* records whose onClick ran, and whether resolve was called (with selected)
acceptItems(selected) ==
    IF Len(selected) = 0
    THEN [clicked |-> << >>, resolved |-> FALSE]
    ELSE [clicked |-> SelectSeq(selected, LAMBDA item : item.onClick),
          resolved |-> ~(\E i \in 1..Len(selected) : selected[i].invalidSelection)]

\* promptUser's result for the resolved choices: choices[0].data, a thunk
\* being invoked and awaited
resultOf(choices) == choices[1].data.v

-----------------------------------------------------------------------------
(* Recency matching *)

\* the comparison of recoverItemFromData without the serialization of
\* objects: values are compared by identity only, and a recovered object is
\* never the object of a record (a faulty variant)
dataMatches_identity(data, item) ==
    item.data.kind = "prim" /\ data = item.data

\* the predicate of recoverItemFromData: objects are compared by their JSON
\* serialization, thunks never match, anything else by ===
dataMatches(data, item) ==
    IF item.data.kind = "obj" THEN data.kind = "obj" /\ data.v = item.data.v
    ELSE IF item.data.kind = "thunk" THEN FALSE
    ELSE data = item.data

\* Array.prototype.find: the index of the first record satisfying Test, or 0
FirstIndex(list, Test(_)) ==
    IF \E i \in 1..Len(list) : Test(list[i])
    THEN CHOOSE i \in 1..Len(list) :
            Test(list[i]) /\ \A j \in 1..(i - 1) : ~Test(list[j])
    ELSE 0

\* recoverItemFromData(data, items): the index of the recovered record, or 0
recoverItemFromData(data, list) ==
    FirstIndex(list, LAMBDA item : dataMatches(data, item))

\* isRecentItem(item) for a _recentItem that is a result value (not a record)
isRecentItem(s, item) ==
    IF s.recentItem = NoRecent THEN FALSE
    ELSE LET recovered == recoverItemFromData(s.recentItem, s.items)
         IN recovered # 0 /\ item.label = s.items[recovered].label

\* matchRecentItem forgetting the recent value when no record matches it (a
\* faulty variant)
matchRecentItem_forget(s) ==
    LET match == FirstIndex(s.items, LAMBDA item : isRecentItem(s, item))
    IN IF match # 0
       THEN [selectItems(s, << s.items[match] >>) EXCEPT !.recentItem = NoRecent]
       ELSE [(IF Len(s.activeItems) = 0 THEN selectItems(s, << >>) ELSE s)
                EXCEPT !.recentItem = NoRecent]

\* matchRecentItem()
matchRecentItem(s) ==
    LET match == FirstIndex(s.items, LAMBDA item : isRecentItem(s, item))
    IN IF match # 0
       THEN [selectItems(s, << s.items[match] >>) EXCEPT !.recentItem = NoRecent]
       ELSE IF Len(s.activeItems) = 0 THEN selectItems(s, << >>) ELSE s

\* set recentItem(response), of QuickPickPrompter
setRecentItem(s, response) ==
    matchRecentItem([s EXCEPT !.recentItem = response])

-----------------------------------------------------------------------------
(* promptUser and the widget's events *)

\* most handler runs of applyStepEstimator that wait for a thunk at a time
MaxRuns == 2

\* a run of applyStepEstimator's code that awaits estimates: whether it is
\* the await of the first record's estimate, the maximum of the estimates it
\* has got and the number of thunk promises it still waits for
FreeRun == [used |-> FALSE, first |-> FALSE, max |-> 0, waiting |-> 0]

\* the prompt before promptUser is called; subs are the subscriptions made
\* by the constructor. estimates is the cache of applyStepEstimator, thunks
\* the promise chains started by estimate() that have not settled, runs the
\* awaiting runs, calls the invocations of thunks and of the estimator so
\* far, lastChange the active set of the last onDidChangeActive event
NoPrompt(subs) ==
    [phase |-> "idle", visible |-> FALSE, choices |-> << >>, settledBy |-> "",
     subs |-> subs, clicked |-> << >>, matchTimer |-> FALSE,
     lastPicked |-> << >>, totalSteps |-> 0, estimates |-> { },
     thunks |-> << >>, runs |-> [slot \in 1..MaxRuns |-> FreeRun],
     calls |-> { }, lastChange |-> << >>]

\* castDatumToItems(datum)
castDatumToItems(datum) ==
    << Item("", "", Undef, Prim(datum), FALSE, FALSE, FALSE) >>

\* the hide handler resolving with the wrong control signal (a faulty variant)
hideChoices_back == castDatumToItems(WIZARD_BACK)

\* picker.onDidHide(() => resolve(castDatumToItems(WIZARD_EXIT)))
hideChoices == castDatumToItems(WIZARD_EXIT)

\* the subscriptions promptUser disposes: this.disposables holds the three
\* pushed by promptUser and the one pushed by the filter box constructor;
\* the disposable returned by applyStepEstimator is dropped by applyConfig
Disposables == { "accept", "hide", "button", "filter" }

\* resolve(choices) of the promise awaited by promptUser, followed (when this
\* call settles it) by the rest of promptUser: the disposables are disposed,
\* _lastPicked is set
resolve(s, choices, by) ==
    IF s.prompt.phase = "settled" THEN s
    ELSE [s EXCEPT !.prompt.phase = "settled",
                   !.prompt.choices = choices,
                   !.prompt.settledBy = by,
                   !.prompt.subs = @ \ Disposables,
                   !.prompt.lastPicked = << choices[1] >>]

\* handleButton(button, cast) of QuickInputPrompter: cast(result) is called
\* when the button produces a result (given), and cast resolves the prompt
\* with castDatumToItems(result)
handleButton(s, given, result) ==
    IF given THEN resolve(s, castDatumToItems(result), "button") ELSE s

\* hashItem(item)
hashItem(item) == << item.label, item.description,
                     IF item.detail = Undef THEN "" ELSE item.detail >>

\* config.stepEstimator: the steps a result adds to the flow
stepEstimator(result) ==
    CASE result = "v1" -> 1 [] result = "v2" -> 2 [] OTHER -> 0

\* config.steps.total
BaseTotal == 3

\* one more invocation of the thunk or of the estimator for the key
invoked(calls, hash, kind) ==
    calls \cup { [hash |-> hash, kind |-> kind,
                  k |-> Cardinality({ c \in calls : c.hash = hash /\ c.kind = kind }) + 1] }

\* estimates[hash] = n
cache(estimates, hash, n) ==
    { e \in estimates : e.hash # hash } \cup { [hash |-> hash, n |-> n] }

\* estimate(item) of applyStepEstimator, called by the run in slot run: the
\* estimate when it is known in the call, or pending when the thunk of the
\* record has been invoked and its promise chain will write the cache. The
\* transforms applied to the value before the estimator leave the values of
\* the records unchanged
estimate(p, item, run) ==
    LET hash == hashItem(item)
        cached == { e \in p.estimates : e.hash = hash }
    IN IF item.skipEstimate = "true" \/ item.invalidSelection
       THEN [n |-> 0, pending |-> FALSE, prompt |-> p]
       ELSE IF cached # { }
       THEN [n |-> (CHOOSE e \in cached : TRUE).n, pending |-> FALSE, prompt |-> p]
       ELSE IF item.data.kind = "thunk"
       THEN IF item.skipEstimate # "false"
            THEN [n |-> 0, pending |-> FALSE,
                  prompt |-> [p EXCEPT !.estimates = cache(@, hash, 0)]]
            ELSE [n |-> 0, pending |-> TRUE,
                  prompt |-> [p EXCEPT
                      !.thunks = Append(@, [hash |-> hash, v |-> item.data.v, run |-> run]),
                      !.calls = invoked(@, hash, "thunk")]]
       ELSE LET n == stepEstimator(item.data.v)
            IN [n |-> n, pending |-> FALSE,
                prompt |-> [p EXCEPT !.estimates = cache(@, hash, n),
                                     !.calls = invoked(@, hash, "estimator")]]

RECURSIVE estimateAll(_, _, _, _, _)
\* active.map(estimate), the records being estimated in order: the maximum
\* of the estimates known so far (none is negative) and the number of
\* promises Promise.all waits for
estimateAll(p, active, run, max, waiting) ==
    IF active = << >> THEN [max |-> max, waiting |-> waiting, prompt |-> p]
    ELSE LET e == estimate(p, Head(active), run)
         IN estimateAll(e.prompt, Tail(active), run,
                        IF e.n > max THEN e.n ELSE max,
                        IF e.pending THEN waiting + 1 ELSE waiting)

\* the least free slot for a run, 0 when MaxRuns runs are waiting
FreeSlot(p) ==
    IF \A slot \in 1..MaxRuns : p.runs[slot].used THEN 0
    ELSE CHOOSE slot \in 1..MaxRuns :
            /\ ~p.runs[slot].used
            /\ \A other \in 1..(slot - 1) : p.runs[other].used

\* the run has its estimates: picker.totalSteps = totalSteps + estimation,
\* or else it waits for the thunks it invoked
awaitEstimates(s, r, run, first) ==
    IF r.waiting = 0
    THEN [s EXCEPT !.prompt = [r.prompt EXCEPT !.totalSteps = BaseTotal + r.max]]
    ELSE [s EXCEPT !.prompt = [r.prompt EXCEPT
            !.runs[run] = [used |-> TRUE, first |-> first,
                           max |-> r.max, waiting |-> r.waiting]]]

\* the onDidChangeActive handler of applyStepEstimator
estimateActive(s, active) ==
    IF Len(active) = 0 THEN s
    ELSE LET run == FreeSlot(s.prompt)
         IN awaitEstimates(s, estimateAll(s.prompt, active, run, 0, 0), run, FALSE)

\* applyConfig(config): setSteps, then applyStepEstimator, which subscribes
\* to onDidChangeActive when the steps are known and awaits the estimate of
\* the first record
applyConfig(s) ==
    LET stepped == IF options.steps THEN [s EXCEPT !.prompt.totalSteps = BaseTotal]
                   ELSE s
    IN IF ~options.stepEstimator \/ ~options.steps THEN stepped
       ELSE LET hooked == [stepped EXCEPT !.prompt.subs = @ \cup { "estimator" }]
                run == FreeSlot(hooked.prompt)
            IN IF Len(s.items) = 0 THEN hooked
               ELSE awaitEstimates(hooked,
                        estimateAll(hooked.prompt, << s.items[1] >>, run, 0, 0),
                        run, TRUE)

\* promptUser returning before the promise of applyConfig has settled (a
\* faulty variant)
awaitsConfig_not(s) == FALSE

\* await this.applyConfig(config) in promptUser: whether promptUser waits,
\* which it does while applyStepEstimator awaits the first record's estimate
awaitsConfig(s) ==
    \E slot \in 1..MaxRuns : s.prompt.runs[slot].used /\ s.prompt.runs[slot].first

\* promptUser after applyConfig, up to the await of the prompt's promise
showPrompt(s) ==
    [s EXCEPT !.prompt.matchTimer = TRUE,
              !.prompt.subs = @ \cup { "accept", "hide", "button" },
              !.prompt.phase = "shown",
              !.prompt.visible = TRUE]

\* the promise of a thunk invoked by estimate() resolves: the chain applies
\* the transforms (none is registered), calls the estimator and writes the
\* cache; the run that awaits it goes on when it was the last one it waited
\* for, and promptUser goes on when that run was applyStepEstimator's own
thunkSettled(s, k) ==
    LET th == s.prompt.thunks[k]
        n == stepEstimator(th.v)
        run == s.prompt.runs[th.run]
        max == IF n > run.max THEN n ELSE run.max
        chained == [s EXCEPT
            !.prompt.thunks = SubSeq(@, 1, k - 1) \o SubSeq(@, k + 1, Len(@)),
            !.prompt.estimates = cache(@, th.hash, n),
            !.prompt.calls = invoked(@, th.hash, "estimator")]
    IN IF run.waiting > 1
       THEN [chained EXCEPT !.prompt.runs[th.run].waiting = @ - 1,
                            !.prompt.runs[th.run].max = max]
       ELSE LET written == [chained EXCEPT !.prompt.runs[th.run] = FreeRun,
                                            !.prompt.totalSteps = BaseTotal + max]
            IN IF run.first /\ s.prompt.phase = "configuring"
               THEN showPrompt(written) ELSE written

-----------------------------------------------------------------------------
(* FilterBoxQuickPickPrompter.addFilterBoxInput *)

\* the closure variables: timer (the pending debounce timeout with what its
\* callback captured: the promise validate and the list items),
\* pendingValidation (0 for undefined, else the index of a promise in
\* validations), pendingValue, the promises the validator has returned
\* (the text each was called with, whether it has resolved, whether a
\* callback has consumed its result) and the callbacks attached by
\* validate.then(...) that have not run yet
NoTimer == [set |-> FALSE, validate |-> 0, items |-> << >>]

NoFilterBox ==
    [timer |-> NoTimer, pendingValidation |-> 0, pendingValue |-> Undef,
     validations |-> << >>, thens |-> << >>]

\* settings.label
FilterLabel == "Enter a value"

\* settings.validator: "abc" is valid, any other text is not
validator(input) ==
    IF input = "abc" THEN Undef ELSE "too long"

\* createItem(detail = '', invalidSelection = false)
createItem(s, detail, invalidSelection) ==
    [Item(FilterLabel, s.value, IF detail = Undef THEN "" ELSE detail,
          Prim(CUSTOM_USER_INPUT), invalidSelection, FALSE, FALSE)
        EXCEPT !.skipEstimate = Undef]

\* picker.items.filter(item => item.data !== CUSTOM_USER_INPUT)
withoutInput(list) ==
    SelectSeq(list, LAMBDA item : item.data # Prim(CUSTOM_USER_INPUT))

\* update(value)
update(s, text) ==
    LET kept == withoutInput(s.items)
        cleared == [s EXCEPT !.fb.timer = NoTimer]
    IN IF text = ""
       THEN [cleared EXCEPT !.items = kept]
       ELSE IF s.fb.pendingValidation = 0 /\ options.validator # "async"
       THEN \* a synchronous validator, or none: the result is applied at once
            LET result == IF options.validator = "sync" THEN validator(text) ELSE Undef
            IN [cleared EXCEPT !.items =
                    << createItem(s, result, result # Undef) >> \o kept]
       ELSE \* validate = pendingValidation ?? validator(value) is a promise
            LET called == s.fb.pendingValidation = 0
                promises == IF called
                            THEN Append(s.fb.validations,
                                        [text |-> text, resolved |-> FALSE,
                                         consumed |-> FALSE])
                            ELSE s.fb.validations
                validate == IF called THEN Len(promises) ELSE s.fb.pendingValidation
            IN [cleared EXCEPT
                    !.fb.validations = promises,
                    !.fb.pendingValidation = validate,
                    !.fb.pendingValue = IF @ = Undef THEN text ELSE @,
                    !.fb.timer = [set |-> TRUE, validate |-> validate, items |-> kept],
                    !.items = << createItem(s, "Checking...", TRUE) >> \o kept]

\* the callback of validate.then(...), attached when the timer fired with
\* then = [validate, items], followed by the settling of its busy update
validated(s, then) ==
    LET result == validator(s.fb.validations[then.validate].text)
        validatedValue == s.fb.pendingValue
        taken == [s EXCEPT !.fb.pendingValidation = 0,
                           !.fb.pendingValue = Undef,
                           !.fb.validations[then.validate].consumed = TRUE]
        applied == IF validatedValue # s.value
                   THEN update(taken, s.value)
                   ELSE [taken EXCEPT !.items =
                            << createItem(s, result, result # Undef) >> \o then.items]
    IN busyUpdateSettled(applied)

RECURSIVE runThens(_, _, _)
\* the callbacks attached to promise pid run in the order of attachment;
\* rest are the callbacks not yet looked at
runThens(s, pid, rest) ==
    IF rest = << >> THEN s
    ELSE IF Head(rest).validate = pid
         THEN runThens(validated(s, Head(rest)), pid, Tail(rest))
         ELSE runThens(s, pid, Tail(rest))

-----------------------------------------------------------------------------
(* Bounds and the inputs drawn by the actions *)

\* most caller records in the visible list, and longest supply
MaxItems == 3

\* caller records: a plain one and two recentlyUsed ones
ItemA == Item("a", "", Undef, Prim("v1"), FALSE, FALSE, FALSE)
ItemB == Item("b", "d1", Undef, Prim("v2"), FALSE, TRUE, FALSE)
ItemC == Item("c", "", Undef, Obj("{k:1}"), FALSE, TRUE, FALSE)

LoadRecords == { ItemA, ItemB, ItemC }

SeqsUpTo(S, n) == UNION { [1..k -> S] : k \in 0..n }

\* error messages of failing loads
Messages == { "e1", "e2" }

\* the options: both items left at their defaults (with and without a
\* comparator), or both given as strings
Options(errorItem, noItemsFoundItem, cmp) ==
    [errorItem |-> errorItem, noItemsFoundItem |-> noItemsFoundItem, compare |-> cmp,
     filterBoxInput |-> FALSE, validator |-> "none",
     steps |-> FALSE, stepEstimator |-> FALSE]

LoadOptions ==
    { Options("default", "default", FALSE),
      Options("default", "default", TRUE),
      Options("[custom error]", "[nothing here]", FALSE) }

\* placeholder and error records, as opposed to caller records
IsNoItemsItem(item) ==
    item = resolveItemOption(DEFAULT_NO_ITEMS_ITEM, options.noItemsFoundItem)

IsErrorItem(item) ==
    /\ item.label = resolveItemOption(DEFAULT_ERROR_ITEM(Undef), options.errorItem).label
    /\ item.data = Prim(WIZARD_BACK)

\* number of caller records in the visible list
NumCallerItems(list) ==
    Cardinality({ i \in 1..Len(list) : ~IsNoItemsItem(list[i]) /\ ~IsErrorItem(list[i]) })

-----------------------------------------------------------------------------
(* Actions: loadItems and the settling of its supply *)

CanLoad(batch) ==
    /\ load.kind = "none"
    /\ NumCallerItems(items) + Len(batch) <= MaxItems

\* loadItems(items) with an array, which runs to its end in the call
loadItemsArray(s, batch) ==
    LET begun == loadItemsBegin(s)
        appended == appendItems(begun, batch)
    IN checkEmpty(appended, appended.pendingUpdates > 0)

\* loadItems(items) with an array
LoadItemsArray(batch) ==
    /\ CanLoad(batch)
    /\ Commit(loadItemsArray(Cur, batch))
    /\ ev' = Event("loadItems:array", batch, "", LoadCall("array", Cur), FALSE)

\* loadItems(items) with a promise or an async iterable: up to the await.
\* For an iterable loadFromAsyncIterable has subscribed to onDidHide and
\* requested the first element.
LoadItemsAsync(kind) ==
    /\ CanLoad(<< >>)
    /\ LET begun == loadItemsBegin(Cur)
           busy == addBusyUpdate(begun)
       IN Commit([busy EXCEPT !.load = LoadCall(kind, Cur)])
    /\ ev' = Event("loadItems:call", << >>, "", LoadCall(kind, Cur), FALSE)

\* the end of an asynchronous loadItems call: the handlers, then the rest of
\* clearAndLoadItems when it made the call, then the event
LoadEnd(s, op, batch, failed, message) ==
    LET done == withHandlers(s, failed, message)
        reselected == IF load.reselect.on THEN selectItems(done, load.reselect.sel)
                      ELSE done
    IN /\ Commit([reselected EXCEPT !.load = NoLoad])
       /\ ev' = [Event(IF load.reselect.on THEN "clearAndLoadItems" ELSE op,
                       batch, message, load, done.load.failed)
                    EXCEPT !.sel = load.reselect.was]

\* the promise resolves with a batch: items.then(this.appendItems.bind(this))
PromiseResolve(batch) ==
    /\ load.kind = "promise"
    /\ NumCallerItems(items) + Len(batch) <= MaxItems
    /\ LoadEnd(appendItems(Cur, batch), "loadItems:promise", batch, FALSE, "")

\* the promise rejects
PromiseReject(message) ==
    /\ load.kind = "promise"
    /\ LoadEnd(Cur, "loadItems:rejected", << >>, TRUE, message)

\* the loop of loadFromAsyncIterable going on whatever the hide event (a
\* faulty variant)
continues_ignoreHidden(hidden, done) == ~done

\* while (!hidden) { ...; if (done) { break } }: the loop goes on to call
\* iterator.next() again
continues(hidden, done) == ~done /\ ~hidden

\* iterator.next() resolves with { value, done }; value is a batch, and
\* given = FALSE stands for no value.  The loop goes on, requesting the next
\* element, unless done or hidden.
IterNext(given, batch, done) ==
    /\ load.kind = "iter"
    /\ NumCallerItems(items) + Len(batch) <= MaxItems
    /\ ~given => batch = << >>
    /\ LET appended == IF given THEN appendItems(Cur, batch) ELSE Cur
           counted == [appended EXCEPT !.load.yielded = TRUE]
       IN IF continues(load.hidden, done)
          THEN /\ Commit([counted EXCEPT !.load.asked = load.hidden])
               /\ ev' = Event("stream:next", batch, "", load, FALSE)
          ELSE LoadEnd(counted, IF done THEN "loadItems:stream" ELSE "loadItems:hidden",
                       batch, FALSE, "")

\* iterator.next() rejects (the generator throws)
IterThrow(message) ==
    /\ load.kind = "iter"
    /\ LoadEnd(Cur, "loadItems:streamFailed", << >>, TRUE, message)

-----------------------------------------------------------------------------
(* Actions: promptUser, the widget's events, recentItem *)

\* promptUser(config) up to the await of the prompt's promise, or up to the
\* await of applyConfig when that one waits
PromptUser ==
    /\ prompt.phase = "idle"
    /\ load.kind = "none"
    /\ LET configured == applyConfig(Cur)
       IN IF awaitsConfig(configured)
          THEN /\ Commit([configured EXCEPT !.prompt.phase = "configuring"])
               /\ ev' = Event("promptUser:config", items, "", load, FALSE)
          ELSE /\ Commit(showPrompt(configured))
               /\ ev' = Event("promptUser", items, "", load, FALSE)

\* the promise returned by a thunk that estimate() invoked resolves
ThunkResolve(k) ==
    /\ k \in 1..Len(prompt.thunks)
    /\ LET settled == thunkSettled(Cur, k)
       IN /\ Commit(settled)
          /\ ev' = Event(IF prompt.phase = "configuring" /\ settled.prompt.phase = "shown"
                         THEN "promptUser" ELSE "estimated",
                         items, "", load, FALSE)

\* setTimeout(this.matchRecentItem.bind(this)) fires
MatchTimer ==
    /\ prompt.matchTimer
    /\ Commit(matchRecentItem([Cur EXCEPT !.prompt.matchTimer = FALSE]))
    /\ ev' = [Event("matchRecentItem", activeItems, "", load, FALSE)
                EXCEPT !.arg = recentItem]

\* the user accepts the highlighted records: picker.selectedItems are the
\* active ones, and acceptItems runs while its subscription is live
OnDidAccept ==
    /\ prompt.visible
    /\ IF "accept" \in prompt.subs
       THEN LET accepted == acceptItems(activeItems)
                clicked == [Cur EXCEPT !.prompt.clicked = accepted.clicked]
            IN /\ Commit(IF accepted.resolved
                         THEN resolve(clicked, activeItems, "accept")
                         ELSE clicked)
               /\ ev' = Event("accept", activeItems, "", load, FALSE)
       ELSE /\ Commit(Cur)
            /\ ev' = Event("accept:off", activeItems, "", load, FALSE)

\* the widget is hidden: the prompt resolves with EXIT while its
\* subscription is live, and checkHidden stops a stream being loaded
OnDidHide ==
    /\ prompt.visible \/ (load.kind = "iter" /\ ~load.hidden)
    /\ LET hidden == [Cur EXCEPT !.prompt.visible = FALSE,
                                 !.load.hidden = (load.kind = "iter")]
       IN IF "hide" \in prompt.subs
          THEN /\ Commit(resolve(hidden, hideChoices, "hide"))
               /\ ev' = Event("hide", << >>, "", load, FALSE)
          ELSE /\ Commit(hidden)
               /\ ev' = Event("hide:off", << >>, "", load, FALSE)

\* a button is triggered: handleButton(button, cast) runs while its
\* subscription is live
OnDidTriggerButton(given, result) ==
    /\ prompt.visible
    /\ IF "button" \in prompt.subs
       THEN /\ Commit(handleButton(Cur, given, result))
            /\ ev' = Event("button", << >>, IF given THEN result ELSE "", load, FALSE)
       ELSE /\ Commit(Cur)
            /\ ev' = Event("button:off", << >>, "", load, FALSE)

RECURSIVE AtIndicesFrom(_, _, _)
\* the records of the list at the indices idx from i on, in the list's order
AtIndicesFrom(list, idx, i) ==
    IF i > Len(list) THEN << >>
    ELSE (IF i \in idx THEN << list[i] >> ELSE << >>) \o AtIndicesFrom(list, idx, i + 1)

\* the records of the list at the indices idx
AtIndices(list, idx) == AtIndicesFrom(list, idx, 1)

\* whether the handler would invoke a thunk for the active set, and so wait
NeedsRun(p, active) == estimateAll(p, active, 0, 0, 0).waiting > 0

\* the highlight moves to the records at the indices idx of the list; the
\* handler of applyStepEstimator runs while its subscription is live
OnDidChangeActive(idx) ==
    /\ prompt.visible
    /\ idx # { } /\ idx \subseteq 1..Len(items)
    /\ activeItems # AtIndices(items, idx)
    /\ LET active == AtIndices(items, idx)
           moved == [Cur EXCEPT !.activeItems = active,
                                !.prompt.lastChange = active]
       IN IF "estimator" \in prompt.subs
          THEN /\ NeedsRun(prompt, active) => FreeSlot(prompt) # 0
               /\ Commit(estimateActive(moved, active))
               /\ ev' = Event("changeActive", active, "", load, FALSE)
          ELSE /\ Commit(moved)
               /\ ev' = Event("changeActive:off", active, "", load, FALSE)

\* prompter.recentItem = response, a result value
SetRecentItem(response) ==
    /\ Commit(setRecentItem(Cur, response))
    /\ ev' = [Event("recentItem", activeItems, "", load, FALSE) EXCEPT !.arg = response]

\* settings.transform of the filter box: the result made from the typed
\* text, none for the empty text
transform(text) ==
    CASE text = "abc" -> "n3" [] text = "abcd" -> "n4" [] OTHER -> Undef

\* settings.inverse of the filter box: the text a result was made from
inverse(output) ==
    CASE output = "n3" -> "abc" [] output = "n4" -> "abcd" [] OTHER -> ""

\* the record of a typed text (its data is CUSTOM_USER_INPUT and its
\* description the text) given as recentItem
InputResponse(text) == [kind |-> "input", v |-> text]

\* isUserInput(picked): picked is a record whose data is CUSTOM_USER_INPUT
isUserInput(picked) == picked.kind = "input"

\* set recentItem(response), of FilterBoxQuickPickPrompter
filterSetRecentItem(s, response) ==
    IF isUserInput(response)
    THEN [s EXCEPT !.value = response.v]
    ELSE setRecentItem(s, response)

\* prompter.recentItem = response on a prompter with a filter box: response
\* is a result value or the record of a typed input
FilterSetRecentItem(response) ==
    /\ options.filterBoxInput
    /\ Commit(filterSetRecentItem(Cur, response))
    /\ ev' = [Event("recentItem:filter", activeItems, "", load, FALSE)
                EXCEPT !.arg = response]

\* prompter.selectItems(...sel)
SelectItems(sel) ==
    /\ Commit(selectItems(Cur, sel))
    /\ ev' = [Event("selectItems", << >>, "", load, FALSE) EXCEPT !.sel = sel]

-----------------------------------------------------------------------------
(* The loading protocol on its own *)

InitLoad ==
    /\ options \in LoadOptions
    /\ items = << >>
    /\ activeItems = << >>
    /\ value = ""
    /\ isShowingPlaceholder = FALSE
    /\ errDetail = Undef
    /\ pendingUpdates = 0
    /\ recentItem = NoRecent
    /\ load = NoLoad
    /\ fb = NoFilterBox
    /\ prompt = NoPrompt({ })
    /\ ev = Event("init", << >>, "", NoLoad, FALSE)

NextLoad ==
    \/ \E batch \in SeqsUpTo(LoadRecords, MaxItems) : LoadItemsArray(batch)
    \/ \E kind \in { "promise", "iter" } : LoadItemsAsync(kind)
    \/ \E batch \in SeqsUpTo(LoadRecords, MaxItems) : PromiseResolve(batch)
    \/ \E message \in Messages : PromiseReject(message)
    \/ \E given \in BOOLEAN, batch \in SeqsUpTo(LoadRecords, MaxItems), done \in BOOLEAN :
            IterNext(given, batch, done)
    \/ \E message \in Messages : IterThrow(message)
    \/ OnDidHide

SpecLoad == InitLoad /\ [][NextLoad]_vars

-----------------------------------------------------------------------------
(* Properties of the loading protocol (checked under SpecLoad) *)

\* the last step was the end of a loadItems call (its promise settled)
LoadItemsSettled ==
    ev.op \in { "loadItems:array", "loadItems:promise", "loadItems:rejected",
                "loadItems:stream", "loadItems:hidden", "loadItems:streamFailed" }

\* every recentlyUsed record of the list precedes every other record
RecentFirst(list) ==
    \A i, j \in 1..Len(list) :
        (list[i].recentlyUsed /\ ~list[j].recentlyUsed) => i < j

\* the records of a supply as the list shows them
Shown(batch) == [ i \in 1..Len(batch) |-> applyDescriptionSuffix(batch[i]) ]

ErrorItemsOf(list) == SelectSeq(list, IsErrorItem)

\* C1: when loadItems is given an array of N >= 1 records while the list is
\* empty, then at its end the list holds exactly those N records (the
\* recentlyUsed ones with the suffix on their description), no placeholder,
\* and the recentlyUsed records come before all others.
C1_ArrayLoad ==
    (ev.op = "loadItems:array" /\ ev.preEmpty /\ Len(ev.batch) >= 1) =>
        /\ SameBag(items, Shown(ev.batch))
        /\ \A i \in 1..Len(items) : ~IsNoItemsItem(items[i]) /\ ~IsErrorItem(items[i])
        /\ ~isShowingPlaceholder
        /\ RecentFirst(items)

\* a supply of three records with a recentlyUsed record after a plain one
C1_Witness ==
    /\ ev.op = "loadItems:array" /\ ev.preEmpty
    /\ Len(ev.batch) = MaxItems
    /\ ~ev.batch[1].recentlyUsed
    /\ ev.batch[2].recentlyUsed /\ ev.batch[3].recentlyUsed
    /\ ev.batch[2] # ev.batch[3]

\* the list is exactly the "no items found" record, and accepting it
\* resolves the prompt with BACK
OnlyPlaceholder ==
    /\ Len(items) = 1
    /\ IsNoItemsItem(items[1])
    /\ acceptItems(items).resolved
    /\ resultOf(items) = WIZARD_BACK

C3_ErrorDetail ==
    (ev.op = "loadItems:rejected" /\ options.errorItem = "default") =>
        /\ Len(ErrorItemsOf(items)) = 1
        /\ ErrorItemsOf(items)[1].detail = ev.err

-----------------------------------------------------------------------------
(* Actions of the filter box *)

\* calls of the validator in one behaviour
MaxValidations == 3
\* callbacks attached to validator promises and not yet run
MaxCallbacks == 2

\* the texts typed into the filter box
Texts == { "", "abc", "abcd" }

\* update would call the validator
CallsValidator(s, text) ==
    text # "" /\ s.fb.pendingValidation = 0 /\ options.validator = "async"

\* the user changes the filter text: update runs while the subscription
\* picker.onDidChangeValue(update) is live
OnDidChangeValue(text) ==
    /\ options.filterBoxInput
    /\ text # value
    /\ IF "filter" \in prompt.subs
       THEN /\ CallsValidator(Cur, text) => Len(fb.validations) < MaxValidations
            /\ Commit(update([Cur EXCEPT !.value = text], text))
            /\ ev' = Event("changeValue", << >>, "", load, FALSE)
       ELSE /\ Commit([Cur EXCEPT !.value = text])
            /\ ev' = Event("changeValue:off", << >>, "", load, FALSE)

\* the debounce timer fires: this.addBusyUpdate(validate.then(...)).  The
\* callback runs at once when the promise has already resolved.
TimerFire ==
    /\ fb.timer.set
    /\ LET then == [validate |-> fb.timer.validate, items |-> fb.timer.items]
           fired == addBusyUpdate([Cur EXCEPT !.fb.timer = NoTimer])
       IN IF fb.validations[then.validate].resolved
          THEN /\ CallsValidator([fired EXCEPT !.fb.pendingValidation = 0], value)
                    => Len(fb.validations) < MaxValidations
               /\ Commit(validated(fired, then))
          ELSE /\ Len(fb.thens) < MaxCallbacks
               /\ Commit([fired EXCEPT !.fb.thens = Append(@, then)])
    /\ ev' = Event("timer", << >>,
                   IF fb.validations[fb.timer.validate].resolved
                   THEN fb.validations[fb.timer.validate].text ELSE "",
                   load, FALSE)

\* a promise returned by the validator resolves: its callbacks run.  The
\* event names (in err) the text of the validation when a callback ran.
ValidatorResolve(pid) ==
    /\ pid \in 1..Len(fb.validations)
    /\ ~fb.validations[pid].resolved
    /\ LET resolved == [Cur EXCEPT
                            !.fb.validations[pid].resolved = TRUE,
                            !.fb.thens = SelectSeq(@, LAMBDA th : th.validate # pid)]
           done == runThens(resolved, pid, fb.thens)
       IN /\ Len(done.fb.validations) <= MaxValidations
          /\ Commit(done)
    /\ ev' = Event("validated", << >>,
                   IF \E i \in 1..Len(fb.thens) : fb.thens[i].validate = pid
                   THEN fb.validations[pid].text ELSE "",
                   load, FALSE)

-----------------------------------------------------------------------------
(* The filter box with an asynchronous validator, over a loaded list *)

FilterOptions ==
    { [Options("default", "default", FALSE)
        EXCEPT !.filterBoxInput = TRUE, !.validator = "async"] }

InitFilter ==
    /\ options \in FilterOptions
    /\ items = << >>
    /\ activeItems = << >>
    /\ value = ""
    /\ isShowingPlaceholder = FALSE
    /\ errDetail = Undef
    /\ pendingUpdates = 0
    /\ recentItem = NoRecent
    /\ load = NoLoad
    /\ fb = NoFilterBox
    /\ prompt = NoPrompt({ "filter" })
    /\ ev = Event("init", << >>, "", NoLoad, FALSE)

NextFilter ==
    \/ \E text \in Texts : OnDidChangeValue(text)
    \/ TimerFire
    \/ \E pid \in 1..MaxValidations : ValidatorResolve(pid)
    \/ \E batch \in SeqsUpTo({ ItemA }, 1) : LoadItemsArray(batch)

SpecFilter == InitFilter /\ [][NextFilter]_vars

-----------------------------------------------------------------------------
(* Properties of the filter box (checked under SpecFilter) *)

\* the records of the list made from the filter text
InputItems == SelectSeq(items, LAMBDA item : item.data = Prim(CUSTOM_USER_INPUT))

Checking(item) == item.detail = "Checking..." /\ item.invalidSelection

\* item shows the validator's result for text
ShowsResultFor(item, text) ==
    /\ item.detail = (IF validator(text) = Undef THEN "" ELSE validator(text))
    /\ item.invalidSelection = (validator(text) # Undef)

\* C5 as stated: with an asynchronous validator, the record made from the
\* filter text is either in the checking state or shows the validation
\* computed for the current filter text, never the one computed for another.
C5_OnlyCurrentValidation ==
    \A i \in 1..Len(InputItems) :
        Checking(InputItems[i]) \/ ShowsResultFor(InputItems[i], value)

\* C6 as stated: while a validation of the current non-empty filter text has
\* been requested and its result not yet taken up, the record made from the
\* filter text is in the checking state and cannot be accepted; and it is
\* acceptable only when the validator's result for the current text is valid.
C6_CheckingWhilePending ==
    /\ (\E pid \in 1..Len(fb.validations) :
            /\ fb.validations[pid].text = value
            /\ ~fb.validations[pid].consumed)
        => \A i \in 1..Len(InputItems) :
                Checking(InputItems[i]) /\ ~acceptItems(<< InputItems[i] >>).resolved
    /\ \A i \in 1..Len(InputItems) :
            acceptItems(<< InputItems[i] >>).resolved => validator(value) = Undef

-----------------------------------------------------------------------------
(* Recency matching over a list built by loads *)

\* records with a shared label, an object value and a thunk
RecentA == Item("a", "", Undef, Prim("v1"), FALSE, FALSE, FALSE)
RecentA2 == Item("a", "d1", Undef, Prim("v3"), FALSE, FALSE, FALSE)
RecentO == Item("c", "", Undef, Obj("{k:1}"), FALSE, FALSE, FALSE)
RecentT == Item("t", "", Undef, Thunk("v2"), FALSE, FALSE, FALSE)

RecentRecords == { RecentA, RecentA2, RecentO, RecentT }

\* prior results: those of the records above, and one no record has
RecentValues == { Prim("v1"), Prim("v3"), Obj("{k:1}"), Prim("v2"), Prim("v9") }

\* most records given to selectItems
MaxSelected == 2

\* the records given to selectItems
SelectRecords == { RecentA2, RecentO, RecentT }

InitRecent ==
    /\ options = Options("default", "default", FALSE)
    /\ items = << >>
    /\ activeItems = << >>
    /\ value = ""
    /\ isShowingPlaceholder = FALSE
    /\ errDetail = Undef
    /\ pendingUpdates = 0
    /\ recentItem = NoRecent
    /\ load = NoLoad
    /\ fb = NoFilterBox
    /\ prompt = NoPrompt({ })
    /\ ev = Event("init", << >>, "", NoLoad, FALSE)

NextRecent ==
    \/ \E record \in RecentRecords : LoadItemsArray(<< record >>)
    \/ \E response \in RecentValues : SetRecentItem(response)
    \/ \E sel \in SeqsUpTo(SelectRecords, MaxSelected) : SelectItems(sel)

SpecRecent == InitRecent /\ [][NextRecent]_vars

\* the indices of the records whose value is not a thunk and equals the prior
\* result data (an object value is the record of its serialization)
Matching(data) ==
    { i \in 1..Len(items) : items[i].data.kind # "thunk" /\ items[i].data = data }

\* C7 as stated: after recentItem is set to a value V, if one record of the
\* list has the value V then exactly that record is highlighted, and if no
\* record has it then the first record is highlighted.
C7_Recency_AsStated ==
    (ev.op = "recentItem" /\ items # << >>) =>
        /\ \A i \in Matching(ev.arg) :
                Matching(ev.arg) = { i } => activeItems = << items[i] >>
        /\ Matching(ev.arg) = { } => activeItems = << items[1] >>

\* C7, amended: after recentItem is set to a value V on a non-empty list, if
\* one record of the list has the value V then exactly the records carrying
\* that record's label are highlighted; if no record has it, the highlight is
\* as it was when some record was highlighted, and else the first record.
C7_Recency ==
    (ev.op = "recentItem" /\ items # << >>) =>
        /\ \A i \in Matching(ev.arg) :
                Matching(ev.arg) = { i } =>
                    activeItems = SelectSeq2(items, { items[i].label })
        /\ Matching(ev.arg) = { } =>
                activeItems = (IF ev.batch # << >> THEN ev.batch ELSE << items[1] >>)

\* the object value is recovered while another record was highlighted
C7_Witness ==
    /\ ev.op = "recentItem"
    /\ ev.arg = Obj("{k:1}")
    /\ Len(items) = MaxItems
    /\ Matching(ev.arg) # { }
    /\ ev.batch # << >> /\ ev.batch # activeItems
    /\ activeItems = << RecentO >>

\* the indices of the list records carrying the label of a record of sel
LabelledLike(sel) ==
    { i \in 1..Len(items) : \E j \in 1..Len(sel) : items[i].label = sel[j].label }

\* the highlighted records are those at the indices idx of the list
HighlightedAre(idx) ==
    /\ Len(activeItems) = Cardinality(idx)
    /\ Range(activeItems) = { items[i] : i \in idx }

\* C12: after selectItems(records) on a non-empty list the highlighted
\* records are exactly the list records carrying the label of one of the
\* given records, or the first list entry when there is none; so some entry
\* is highlighted.
C12_SelectItems ==
    (ev.op = "selectItems" /\ items # << >>) =>
        /\ HighlightedAre(IF LabelledLike(ev.sel) # { } THEN LabelledLike(ev.sel)
                          ELSE { 1 })
        /\ activeItems # << >>

\* records are given of which none is in the list, while another entry than
\* the first was highlighted
C12_Witness ==
    /\ ev.op = "selectItems"
    /\ Len(ev.sel) = MaxSelected
    /\ Len(items) >= 2
    /\ LabelledLike(ev.sel) = { }
    /\ activeItems = << items[1] >>

-----------------------------------------------------------------------------
(* The prompt: promptUser over a loaded list, with the widget's events *)

\* records with an onClick callback, one of them informational (invalid)
\* and sharing its label with a selectable one
PromptA == Item("a", "", Undef, Prim("v1"), FALSE, FALSE, TRUE)
PromptI == Item("a", "d1", Undef, Prim("v3"), TRUE, FALSE, TRUE)
PromptB == Item("b", "", Undef, Prim("v2"), FALSE, FALSE, FALSE)

PromptRecords == { PromptA, PromptI, PromptB }

\* most caller records in the list of the prompt
MaxPromptItems == 2

\* results a button may produce
ButtonResults == { "v9", WIZARD_BACK }

\* the filter box without a validator, in a flow with or without a step
\* estimator
PromptOptions ==
    { [Options("default", "default", FALSE)
        EXCEPT !.filterBoxInput = TRUE, !.steps = TRUE, !.stepEstimator = e]
      : e \in BOOLEAN }

InitPrompt ==
    /\ options \in PromptOptions
    /\ items = << >>
    /\ activeItems = << >>
    /\ value = ""
    /\ isShowingPlaceholder = FALSE
    /\ errDetail = Undef
    /\ pendingUpdates = 0
    /\ recentItem = NoRecent
    /\ load = NoLoad
    /\ fb = NoFilterBox
    /\ prompt = NoPrompt({ "filter" })
    /\ ev = Event("init", << >>, "", NoLoad, FALSE)

NextPrompt ==
    \/ \E record \in PromptRecords :
            NumCallerItems(items) < MaxPromptItems /\ LoadItemsArray(<< record >>)
    \/ PromptUser
    \/ MatchTimer
    \/ OnDidAccept
    \/ OnDidHide
    \/ \E given \in BOOLEAN, result \in ButtonResults : OnDidTriggerButton(given, result)
    \/ \E i \in 1..(MaxPromptItems + 1) : OnDidChangeActive({ i })
    \/ \E text \in { "", "abc" } : OnDidChangeValue(text)

SpecPrompt == InitPrompt /\ [][NextPrompt]_vars

-----------------------------------------------------------------------------
(* Properties of the prompt (checked under SpecPrompt) *)

Settled == prompt.phase = "settled"

\* some record of the selection is invalid
HasInvalid(selected) == \E i \in 1..Len(selected) : selected[i].invalidSelection

\* C8: the prompt is settled by the first of: an accept of a highlighted
\* selection without invalid record (with that selection), a hide (with
\* EXIT), a button producing a result (with that result); once settled, no
\* later event changes the outcome.
C8_SettledOnce ==
    /\ [](/\ (ev.op = "accept" /\ ev.batch # << >> /\ ~HasInvalid(ev.batch)) =>
                (Settled /\ prompt.settledBy = "accept" /\ prompt.choices = ev.batch)
          /\ ev.op = "hide" =>
                (Settled /\ prompt.settledBy = "hide"
                    /\ resultOf(prompt.choices) = WIZARD_EXIT)
          /\ (ev.op = "button" /\ ev.err # "") =>
                (Settled /\ prompt.settledBy = "button"
                    /\ resultOf(prompt.choices) = ev.err)
          /\ Settled => prompt.settledBy \in { "accept", "hide", "button" })
    /\ [][Settled => (Settled' /\ prompt'.choices = prompt.choices
                        /\ prompt'.settledBy = prompt.settledBy)]_vars

\* the widget is hidden after an accept has settled the prompt
C8_Witness ==
    /\ ev.op = "hide:off"
    /\ Settled
    /\ prompt.settledBy = "accept"
    /\ resultOf(prompt.choices) = "v1"

\* C9: an accept of a non-empty selection runs the onClick of every selected
\* record that has one, also when a selected record is invalid; and with an
\* invalid record selected the prompt stays pending.
C9_OnClickFirst ==
    (ev.op = "accept" /\ ev.batch # << >>) =>
        /\ prompt.clicked = SelectSeq(ev.batch, LAMBDA item : item.onClick)
        /\ HasInvalid(ev.batch) => ~Settled

\* a valid and an invalid record are accepted together
C9_Witness ==
    /\ ev.op = "accept"
    /\ Len(ev.batch) = 2
    /\ HasInvalid(ev.batch)
    /\ Len(prompt.clicked) = 2
    /\ prompt.phase = "shown"

\* C10 as stated: once the prompt is settled, every subscription made for it
\* on the widget (accept, hide, button, filter text, the estimator's
\* active-item hook) is disposed.
C10_AllDisposed ==
    Settled => prompt.subs = { }

-----------------------------------------------------------------------------
(* An incremental stream and the hide event *)

\* most caller records in the list loaded from the stream
MaxStreamItems == 2

\* the elements of the stream: a record, or a batch of one record
StreamRecords == { ItemA, ItemB }

InitStream ==
    /\ InitLoad
    /\ options = Options("default", "default", FALSE)

\* the pending call of iterator.next() settles
StreamSettles ==
    \/ \E given \in BOOLEAN, batch \in SeqsUpTo(StreamRecords, 1), done \in BOOLEAN :
            /\ NumCallerItems(items) + Len(batch) <= MaxStreamItems
            /\ IterNext(given, batch, done)
    \/ IterThrow("e1")

NextStream ==
    \/ LoadItemsAsync("iter")
    \/ StreamSettles
    \/ OnDidHide

\* every call of iterator.next() settles
SpecStream == InitStream /\ [][NextStream]_vars /\ WF_vars(StreamSettles)

-----------------------------------------------------------------------------
(* What a load leaves of the list (checked under SpecLoad) *)

\* a record supplied by the caller, as opposed to a placeholder or error record
IsCallerItem(item) == ~IsNoItemsItem(item) /\ ~IsErrorItem(item)

\* the steps of loadItems: its call and the settling of its supply
LoadSteps ==
    { "loadItems:array", "loadItems:call", "loadItems:promise", "loadItems:rejected",
      "stream:next", "loadItems:stream", "loadItems:hidden", "loadItems:streamFailed" }

\* C13 as stated: no step of a loadItems call removes a caller record from
\* the list, whatever loads came before (failed ones included): every caller
\* record in the list before the step is in the list after it, as many
\* times.
C13_LoadAppends ==
    [][ev'.op \in LoadSteps =>
            \A i \in 1..Len(items) :
                IsCallerItem(items[i]) => Count(items', items[i]) >= Count(items, items[i])]_vars

-----------------------------------------------------------------------------
(* Placeholders and loads with the filter box (checked under SpecFilter) *)

\* C14 as stated: at the end of a loadItems call that appended records and
\* did not fail, the list holds no "no items found" placeholder and no error
\* record, whatever text changes and validations came in between.
C14_PlaceholderGone ==
    (/\ ev.op \in { "loadItems:array", "loadItems:promise", "loadItems:stream",
                    "loadItems:hidden" }
     /\ ev.batch # << >>) =>
        \A i \in 1..Len(items) : ~IsNoItemsItem(items[i]) /\ ~IsErrorItem(items[i])

-----------------------------------------------------------------------------
(* clearItems and clearAndLoadItems *)

\* prompter.clearItems()
ClearItems ==
    /\ LET cleared == clearItems(Cur)
       IN Commit([cleared EXCEPT !.load.cleared = (cleared.load.kind # "none")])
    /\ ev' = Event("clearItems", << >>, "",
                   [load EXCEPT !.preEmpty = (items = << >>),
                                !.prePlaceholder = isShowingPlaceholder], FALSE)

\* clearAndLoadItems keeping no record of the highlight (a faulty variant)
previousSelected_none(s) == << >>

\* const previousSelected = [...this.quickPick.activeItems]
previousSelected(s) == s.activeItems

\* clearAndLoadItems(items) with an array: runs to its end in the call
ClearAndLoadItemsArray(batch) ==
    /\ load.kind = "none"
    /\ LET selected == previousSelected(Cur)
           loaded == loadItemsArray(clearItems(Cur), batch)
       IN /\ Commit(selectItems(loaded, selected))
          /\ ev' = [Event("clearAndLoadItems", batch, "", LoadCall("array", Cur), FALSE)
                        EXCEPT !.sel = activeItems]

\* clearAndLoadItems(items) with a promise or an async iterable: up to the
\* await of loadItems
ClearAndLoadItemsAsync(kind) ==
    /\ load.kind = "none"
    /\ LET selected == previousSelected(Cur)
           begun == loadItemsBegin(clearItems(Cur))
           busy == addBusyUpdate(begun)
           call == [LoadCall(kind, Cur) EXCEPT
                        !.reselect = [on |-> TRUE, sel |-> selected, was |-> activeItems]]
       IN Commit([busy EXCEPT !.load = call])
    /\ ev' = Event("clearAndLoadItems:call", << >>, "", LoadCall(kind, Cur), FALSE)

\* most caller records in the list being cleared and reloaded
MaxReloadItems == 2

\* records of which two share their label and one is recentlyUsed
ReloadRecords == { RecentA, RecentA2, ItemB }

\* a supply of the reload, or an element of its stream
ReloadBatches == SeqsUpTo(ReloadRecords, 1)

Fits(batch) == NumCallerItems(items) + Len(batch) <= MaxReloadItems

InitReload ==
    /\ InitLoad
    /\ options = Options("default", "default", FALSE)

NextReload ==
    \/ \E batch \in ReloadBatches : Fits(batch) /\ LoadItemsArray(batch)
    \/ \E kind \in { "promise", "iter" } : LoadItemsAsync(kind)
    \/ \E batch \in SeqsUpTo(ReloadRecords, MaxReloadItems) : ClearAndLoadItemsArray(batch)
    \/ \E kind \in { "promise", "iter" } : ClearAndLoadItemsAsync(kind)
    \/ \E batch \in ReloadBatches : Fits(batch) /\ PromiseResolve(batch)
    \/ PromiseReject("e1")
    \/ \E given \in BOOLEAN, batch \in ReloadBatches, done \in BOOLEAN :
            Fits(batch) /\ IterNext(given, batch, done)
    \/ IterThrow("e1")
    \/ ClearItems
    \/ \E record \in ReloadRecords : SelectItems(<< record >>)

SpecReload == InitReload /\ [][NextReload]_vars

\* the elements of a supply arriving after clearItems are in the list
Arrived ==
    \A i \in 1..Len(ev.batch) :
        Count(items, Shown(ev.batch)[i]) >= Count(Shown(ev.batch), Shown(ev.batch)[i])

\* C15: clearItems empties the list and clears the placeholder flag, and
\* leaves the supply being loaded as it is: the load stays in flight, and
\* the elements that arrive after clearItems are appended to the list.
C15_ClearKeepsSupply ==
    /\ [](ev.op = "clearItems" => (items = << >> /\ ~isShowingPlaceholder))
    /\ []((/\ ev.op \in { "stream:next", "loadItems:stream", "loadItems:hidden",
                           "loadItems:promise" }
           /\ ev.cleared) => Arrived)
    /\ [][ev'.op = "clearItems" =>
            (load'.kind = load.kind /\ pendingUpdates' = pendingUpdates)]_vars

\* an element of a stream arrives after clearItems emptied a list that held
\* a record when the stream was started
C15_Witness ==
    /\ ev.op = "stream:next"
    /\ ev.cleared /\ ~ev.preEmpty
    /\ ev.batch # << >>
    /\ items = Shown(ev.batch)

\* C16: a second clearItems changes nothing: from any state, clearItems
\* after clearItems gives the state clearItems gives (empty list, flag
\* cleared), and right after clearItems the prompter is in that state.
C16_ClearIdempotent ==
    /\ clearItems(clearItems(Cur)) = clearItems(Cur)
    /\ clearItems(Cur).items = << >> /\ ~clearItems(Cur).isShowingPlaceholder
    /\ ev.op = "clearItems" => clearItems(Cur) = Cur

\* clearItems is called on a list of records with a showing error record,
\* left by a failed load
C16_Witness ==
    /\ ev.op = "clearItems"
    /\ ev.prePlaceholder /\ ~ev.preEmpty
    /\ errDetail # Undef
    /\ items = << >>

\* C17: after clearAndLoadItems the highlighted records of a non-empty list
\* are those carrying the label of a record that was highlighted before the
\* call, or the first record when there is none.
C17_Reselect ==
    (ev.op = "clearAndLoadItems" /\ items # << >>) =>
        HighlightedAre(IF LabelledLike(ev.sel) # { } THEN LabelledLike(ev.sel)
                       ELSE { 1 })

\* a reload from a stream brings two different records with the label of
\* the one record that was highlighted before the call
C17_Witness ==
    /\ ev.op = "clearAndLoadItems"
    /\ ev.yielded
    /\ Len(ev.sel) = 1
    /\ Cardinality(LabelledLike(ev.sel)) = 2
    /\ Len(activeItems) = 2
    /\ activeItems[1] # activeItems[2]

-----------------------------------------------------------------------------
(* Validator calls of the filter box (checked under SpecFilter) *)

\* the validator calls that have not resolved
InFlight == { pid \in 1..Len(fb.validations) : ~fb.validations[pid].resolved }

\* C18 as stated: at most one validator call is in flight: the validator is
\* never called while a call it made earlier has not resolved.
C18_OneInFlight == Cardinality(InFlight) <= 1

-----------------------------------------------------------------------------
(* The filter box on its own, with timers firing and validations resolving *)

NextTyping ==
    \/ \E text \in Texts : OnDidChangeValue(text)
    \/ TimerFire
    \/ \E pid \in 1..MaxValidations : ValidatorResolve(pid)

\* a set debounce timer fires, and every validator call resolves
SpecTyping ==
    /\ InitFilter /\ [][NextTyping]_vars
    /\ WF_vars(TimerFire)
    /\ \A pid \in 1..MaxValidations : WF_vars(ValidatorResolve(pid))

\* the last step ran a callback of a validation computed for another text
\* than the current, non-empty one
StaleValidation ==
    /\ ev.op \in { "validated", "timer" }
    /\ ev.err # "" /\ ev.err # value
    /\ value # ""

\* the record made from the filter text shows the validator's result for text
Validated(text) ==
    /\ InputItems # << >>
    /\ \A i \in 1..Len(InputItems) : ShowsResultFor(InputItems[i], text)

\* the filter text stays text for good, with validator calls and callbacks
\* left to the behaviour
StaysAt(text) ==
    /\ value = text
    /\ Len(fb.validations) < MaxValidations
    /\ Len(fb.thens) < MaxCallbacks

\* C19 as stated: when a validation resolves that was computed for a text
\* no longer current, its result is not applied: the record is in the
\* checking state and the validator has been called for the current text;
\* and when the filter text stays at a non-empty text X, the record
\* eventually shows the validator's result for X.
C19_RecomputeOnStale ==
    /\ [](StaleValidation =>
            /\ InputItems # << >>
            /\ \A i \in 1..Len(InputItems) : Checking(InputItems[i])
            /\ \E pid \in InFlight : fb.validations[pid].text = value)
    /\ \A text \in Texts \ { "" } :
            <>[]StaysAt(text) => <>[]Validated(text)

-----------------------------------------------------------------------------
(* The list under the callbacks of the filter box (checked under SpecFilter) *)

\* C20 as stated: a step that runs the callback of a validation changes the
\* record made from the filter text only: the other records of the list are
\* after the step what they were before it (none lost, none back).
C20_OnlySyntheticChanges ==
    [][(ev'.op \in { "validated", "timer" } /\ ev'.err # "") =>
            withoutInput(items') = withoutInput(items)]_vars

-----------------------------------------------------------------------------
(* The step estimator: promptUser in a flow with known steps and a step
   estimator, over records with immediate and thunk values *)

\* an immediate value, two thunks whose skipEstimate is false and a thunk
\* that leaves skipEstimate unset
EstA == Item("a", "", Undef, Prim("v1"), FALSE, FALSE, FALSE)
EstT == [Item("t", "", Undef, Thunk("v2"), FALSE, FALSE, FALSE)
            EXCEPT !.skipEstimate = "false"]
EstV == [Item("v", "", Undef, Thunk("v1"), FALSE, FALSE, FALSE)
            EXCEPT !.skipEstimate = "false"]
EstU == Item("u", "", Undef, Thunk("v1"), FALSE, FALSE, FALSE)

EstRecords == { EstA, EstT, EstV, EstU }

\* the lists of the estimated prompt: every pair of the records
EstLists == { << first, second >> : first \in EstRecords, second \in EstRecords }

InitEstimate ==
    /\ options = [Options("default", "default", FALSE)
                    EXCEPT !.steps = TRUE, !.stepEstimator = TRUE]
    /\ items = << >>
    /\ activeItems = << >>
    /\ value = ""
    /\ isShowingPlaceholder = FALSE
    /\ errDetail = Undef
    /\ pendingUpdates = 0
    /\ recentItem = NoRecent
    /\ load = NoLoad
    /\ fb = NoFilterBox
    /\ prompt = NoPrompt({ })
    /\ ev = Event("init", << >>, "", NoLoad, FALSE)

\* the list is loaded, in one call, before the prompt starts
NextEstimate ==
    \/ \E batch \in EstLists :
            /\ prompt.phase = "idle"
            /\ items = << >>
            /\ LoadItemsArray(batch)
    \/ PromptUser
    \/ \E k \in DOMAIN prompt.thunks : ThunkResolve(k)
    \/ MatchTimer
    \/ OnDidAccept
    \/ OnDidHide
    \/ \E idx \in SUBSET (DOMAIN items) : OnDidChangeActive(idx)

SpecEstimate == InitEstimate /\ [][NextEstimate]_vars

-----------------------------------------------------------------------------
(* Properties of the step estimator (checked under SpecEstimate) *)

\* how often the thunk (kind "thunk") or the estimator (kind "estimator")
\* has been invoked for the key
Calls(hash, kind) ==
    Cardinality({ c \in prompt.calls : c.hash = hash /\ c.kind = kind })

\* the record leaves skipEstimate unset and can be selected
UnsetSkip(item) == item.skipEstimate = Undef /\ ~item.invalidSelection

\* the estimate of the record is in the cache, or the record is skipped
Computed(item) ==
    \/ item.skipEstimate = "true" \/ item.invalidSelection
    \/ \E e \in prompt.estimates : e.hash = hashItem(item)

\* the cached estimate of the record, 0 for a skipped record
Cached(item) ==
    IF item.skipEstimate = "true" \/ item.invalidSelection THEN 0
    ELSE (CHOOSE e \in prompt.estimates : e.hash = hashItem(item)).n

\* the greatest cached estimate over the records
MaxCached(active) ==
    CHOOSE n \in { Cached(active[i]) : i \in 1..Len(active) } :
        \A i \in 1..Len(active) : Cached(active[i]) <= n

\* C21 (as stated): after the handler has estimated an active record that
\* leaves skipEstimate unset, the record's thunk has been invoked when its
\* value is a thunk, and the estimator has not been invoked for it when its
\* value is immediate.
C21_DefaultSkipEstimate ==
    (ev.op = "changeActive") =>
        \A i \in 1..Len(ev.batch) :
            UnsetSkip(ev.batch[i]) =>
                IF ev.batch[i].data.kind = "thunk"
                THEN Calls(hashItem(ev.batch[i]), "thunk") >= 1
                ELSE Calls(hashItem(ev.batch[i]), "estimator") = 0

\* C22 (as stated): within one prompt the estimator, and for a thunk-valued
\* record the thunk, is invoked at most once per record key.
C22_MemoizedPerKey ==
    \A c \in prompt.calls : c.k = 1

\* C23 (as stated): once every estimate started by the changes of the active
\* set has settled, the total-step count is the base total plus the greatest
\* estimate over the active set of the last change.
C23_TotalFollowsActive ==
    ("estimator" \in prompt.subs /\ prompt.lastChange # << >> /\ prompt.thunks = << >>) =>
        prompt.totalSteps = BaseTotal + MaxCached(prompt.lastChange)

\* C24: with a step estimator, known steps and a non-empty list, the widget
\* is shown only once the first record's estimate is computed and written
\* to the total-step count: promptUser waits, the widget not shown, exactly
\* while that estimate is awaited; and an accept of a valid selection settles
\* the prompt whatever estimates are still being computed.
C24_ShownAfterFirstEstimate ==
    /\ (ev.op = "promptUser" /\ ev.batch # << >>) =>
            /\ prompt.visible
            /\ Computed(ev.batch[1])
            /\ prompt.totalSteps = BaseTotal + Cached(ev.batch[1])
    /\ prompt.phase = "configuring" =>
            /\ ~prompt.visible
            /\ \E k \in 1..Len(prompt.thunks) :
                    /\ prompt.thunks[k].hash = hashItem(items[1])
                    /\ prompt.runs[prompt.thunks[k].run].first
    /\ (ev.op = "accept" /\ ev.batch # << >> /\ ~HasInvalid(ev.batch)) => Settled

\* an accept settles the prompt, which was shown after the thunk of its first
\* record had been evaluated, while a later estimate is still being computed
C24_Witness ==
    /\ ev.op = "accept"
    /\ Settled
    /\ items[1] = EstT
    /\ EstT \notin Range(ev.batch)
    /\ prompt.thunks # << >>
    /\ \E e \in prompt.estimates : e.hash = hashItem(EstT) /\ e.n = 2

-----------------------------------------------------------------------------
(* Recency across repopulation: the recent value is set, the list is loaded
   and the prompt's timer matches again *)

\* most records in the list
MaxRematchItems == 2

RematchRecords == { RecentA, RecentO }

\* prior results: those of the records, and one no record has
RematchValues == { Prim("v1"), Obj("{k:1}"), Prim("v9") }

NextRematch ==
    \/ \E record \in RematchRecords :
            NumCallerItems(items) < MaxRematchItems /\ LoadItemsArray(<< record >>)
    \/ \E response \in RematchValues : SetRecentItem(response)
    \/ PromptUser
    \/ MatchTimer

SpecRematch == InitRecent /\ [][NextRematch]_vars

\* C25 (as stated): after a recency match that finds no record with the
\* recent value, the stored recent value is cleared and the first record is
\* the highlighted one.
C25_NoMatchClears_AsStated ==
    (ev.op \in { "recentItem", "matchRecentItem" } /\ ev.arg # NoRecent
        /\ items # << >> /\ Matching(ev.arg) = { }) =>
            /\ recentItem = NoRecent
            /\ activeItems = << items[1] >>

\* C25, amended: a recency match that finds no record with the recent value
\* keeps the stored recent value (only a match clears it) and leaves the
\* highlight as it was when some record was highlighted, else highlights the
\* first record; so the next attempt, made by the timer of promptUser,
\* selects by that value once the list holds a record with it.
C25_NoMatchKeeps ==
    (ev.op \in { "recentItem", "matchRecentItem" } /\ ev.arg # NoRecent) =>
        /\ Matching(ev.arg) = { } =>
                /\ recentItem = ev.arg
                /\ items # << >> =>
                        activeItems = (IF ev.batch # << >> THEN ev.batch
                                       ELSE << items[1] >>)
        /\ Matching(ev.arg) # { } =>
                /\ recentItem = NoRecent
                /\ \E i \in Matching(ev.arg) :
                        /\ \A j \in Matching(ev.arg) : i <= j
                        /\ activeItems = SelectSeq2(items, { items[i].label })

\* the timer of promptUser selects, by a recent value kept from an earlier
\* attempt without match, a record loaded since
C25_Witness ==
    /\ ev.op = "matchRecentItem"
    /\ ev.arg = Obj("{k:1}")
    /\ ev.batch = << RecentA >>
    /\ activeItems = << RecentO >>
    /\ recentItem = NoRecent

-----------------------------------------------------------------------------
(* The filter box and the recent selection: a prompter with a filter box
   whose settings have transform and inverse is given a prior response *)

\* the list of the prompter, loaded in one call
InverseLists == { << PromptB >>, << PromptA, PromptB >> }

\* prior responses: the results transform makes from typed texts, the value
\* of a list record, and the records of typed texts (what the recentItem
\* getter returns after a typed text was accepted)
FilterResponses ==
    { Prim(transform(text)) : text \in { typed \in Texts : transform(typed) # Undef } }
        \cup { Prim("v2") }
        \cup { InputResponse(text) : text \in Texts }

InitInverse ==
    /\ options = [Options("default", "default", FALSE) EXCEPT !.filterBoxInput = TRUE]
    /\ items = << >>
    /\ activeItems = << >>
    /\ value = ""
    /\ isShowingPlaceholder = FALSE
    /\ errDetail = Undef
    /\ pendingUpdates = 0
    /\ recentItem = NoRecent
    /\ load = NoLoad
    /\ fb = NoFilterBox
    /\ prompt = NoPrompt({ "filter" })
    /\ ev = Event("init", << >>, "", NoLoad, FALSE)

NextInverse ==
    \/ \E batch \in InverseLists : items = << >> /\ LoadItemsArray(batch)
    \/ \E response \in FilterResponses : FilterSetRecentItem(response)
    \/ \E text \in Texts : OnDidChangeValue(text)
    \/ PromptUser
    \/ MatchTimer
    \/ OnDidAccept

SpecInverse == InitInverse /\ [][NextInverse]_vars

\* C26 (as stated): with an inverse function configured, after a result R
\* that transform makes from a typed text is given as the recent selection,
\* the filter box holds inverse(R).
C26_InverseRepopulates ==
    (ev.op = "recentItem:filter" /\ ev.arg.kind = "prim"
        /\ \E text \in Texts : transform(text) = ev.arg.v) =>
            value = inverse(ev.arg.v)

====
